---------------------------- MODULE Spec2Model ----------------------------
(***************************************************************************)
(* build_details: a build-time code generator.  A BuildDetails value holds *)
(* two sets of detail kinds (optional, required); write_to renders one     *)
(* `pub const` line per kind from the process environment and the clock;   *)
(* generate does the same into a file under OUT_DIR.                       *)
(*                                                                         *)
(* Text is modelled as sequences of tokens (a name such as CARGO_CFG_UNIX  *)
(* is <<"CARGO_", "CFG_", "UNIX">>), so that starts_with, prefix stripping *)
(* and {:?} quoting are computed and not assumed.  A rendered literal is a *)
(* tagged tuple, the tag being the fixed text of its format string.        *)
(***************************************************************************)
EXTENDS Integers, Sequences, FiniteSets, TLC

VARIABLES
    bd,        \* the BuildDetails under construction: [optional, required]
    ctor,      \* the constructor that made it
    last,      \* per kind, the last of require/include/exclude called with it
    call,      \* the write the most recent operation was, if it was one
    env,       \* the process environment
    out_file,  \* the sink of the most recent write: [lines, cap]
    result,    \* what the most recent write_to or generate returned
    rendered,  \* the renders the most recent write performed, in order
    descriptor, \* the Detail the most recent operation rendered by itself
    fs,        \* the files created so far: a set of <<path, lines>>
    steps      \* operations performed

vars ==
    <<bd, ctor, last, call, env, out_file, result, rendered, descriptor, fs,
      steps>>

---------------------------------------------------------------------------
(* Bounds of the model.                                                    *)

\* operations (set calls, environment changes, writes) in one behaviour
MaxSteps == 2

\* hash seeds: a HashSet or HashMap iterates in an order fixed by its seed
MaxSeed == 1

\* a failing sink accepts this many lines before its write fails
MaxSinkCap == 1

---------------------------------------------------------------------------
(* Option<T> and Result<T> values of the program.                          *)

None == <<"None">>

Some(x) == <<"Some", x>>

Ok(x) == <<"Ok", x>>

Err(e) == <<"Err", e>>

IsOk(r) == r[1] = "Ok"

\* error::Error
Missing == <<"Missing">>

MissingDetail(name) == <<"MissingDetail", name>>

MissingEnv(name) == <<"MissingEnv", name>>

Io == <<"Io">>

Fmt == <<"Fmt">>

---------------------------------------------------------------------------
(* enum BuildDetail, in declaration order.                                 *)

BuildDetailOrder ==
    << "Timestamp", "Version", "Profile", "RustFlags", "Name", "Authors",
       "Description", "Homepage", "OptLevel", "Cfg", "Features" >>

BuildDetail == { BuildDetailOrder[i] : i \in 1..Len(BuildDetailOrder) }

---------------------------------------------------------------------------
(* struct BuildDetails and its constructors and mutators.                  *)

Default ==
    [ optional |-> {"Version", "Profile", "RustFlags"},
      required |-> {} ]

all ==
    [ optional |-> { "Timestamp", "Version", "Profile", "RustFlags", "Name",
                     "Authors", "Description", "Homepage", "Cfg", "Features" },
      required |-> {} ]

require_all ==
    LET x == all
    IN  [ optional |-> x.required, required |-> x.optional ]

none == [ optional |-> {}, required |-> {} ]

Constructors == { "default", "all", "require_all", "none" }

Construct(c) ==
    CASE c = "default"     -> Default
      [] c = "all"         -> all
      [] c = "require_all" -> require_all
      [] c = "none"        -> none

\* require without the removal from the optional set
require_keeps_optional(self, detail) ==
    [ optional |-> self.optional, required |-> self.required \cup {detail} ]

require(self, detail) ==
    LET optional == self.optional \ {detail}
    IN  [ optional |-> optional, required |-> self.required \cup {detail} ]

include(self, detail) ==
    LET required == self.required \ {detail}
    IN  [ optional |-> self.optional \cup {detail}, required |-> required ]

\* exclude that removes from the optional set alone
exclude_optional_only(self, detail) ==
    [ optional |-> self.optional \ {detail}, required |-> self.required ]

exclude(self, detail) ==
    [ optional |-> self.optional \ {detail},
      required |-> self.required \ {detail} ]

---------------------------------------------------------------------------
(* The process environment: a set of <<name, value>> bindings, at most one *)
(* per name.  Names and values are token sequences.                        *)

OUT_DIR == <<"OUT_DIR">>

PROFILE == <<"PROFILE">>

OPT_LEVEL == <<"OPT_LEVEL">>

RUSTFLAGS == <<"RUSTFLAGS">>

CARGO_PKG_VERSION == <<"CARGO_", "PKG_", "VERSION">>

CARGO_PKG_NAME == <<"CARGO_", "PKG_", "NAME">>

CARGO_PKG_AUTHORS == <<"CARGO_", "PKG_", "AUTHORS">>

CARGO_PKG_DESCRIPTION == <<"CARGO_", "PKG_", "DESCRIPTION">>

CARGO_PKG_HOMEPAGE == <<"CARGO_", "PKG_", "HOMEPAGE">>

CARGO_CFG_ == <<"CARGO_", "CFG_">>

CARGO_FEATURE_ == <<"CARGO_", "FEATURE_">>

\* the values a variable of the model may be set to
Values(name) ==
    CASE name = OUT_DIR   -> { <<"/", "out">> }
      [] name = PROFILE   -> { <<"debug">>, <<"release">> }
      [] name = OPT_LEVEL -> { <<"3">> }
      [] name = CARGO_PKG_HOMEPAGE -> { <<"http://example.com/?a=", "\"", "\"">> }
      [] name = CARGO_CFG_ \o <<"UNIX">> -> { <<>> }
      [] name = CARGO_CFG_ \o <<"TARGET_", "POINTER_", "WIDTH">> -> { <<"64">> }
      [] OTHER -> { <<"x">> }

\* the variable names of the model: those the generator reads, two CARGO_CFG_*
\* and one CARGO_FEATURE_* variable, and one that shares no prefix in full
VarNames ==
    { OUT_DIR, PROFILE, OPT_LEVEL, RUSTFLAGS, CARGO_PKG_VERSION, CARGO_PKG_NAME,
      CARGO_PKG_AUTHORS, CARGO_PKG_DESCRIPTION, CARGO_PKG_HOMEPAGE,
      CARGO_CFG_ \o <<"UNIX">>,
      CARGO_CFG_ \o <<"TARGET_", "POINTER_", "WIDTH">>,
      CARGO_FEATURE_ \o <<"ON_", "BY_", "DEFAULT">>,
      <<"CARGO_", "CFG">> }

\* the environment of a bare process, and the one cargo gives a build script
BareEnv == {}

CargoEnv == { <<n, CHOOSE v \in Values(n) : TRUE>> : n \in VarNames }

InitEnvs == { BareEnv, CargoEnv }

\* std::env::var(name).ok() and std::env::var_os(name)
var(e, name) ==
    IF \E b \in e : b[1] = name
    THEN Some((CHOOSE b \in e : b[1] = name)[2])
    ELSE None

\* std::env::set_var and std::env::remove_var
set_var(e, name, value) == { b \in e : b[1] # name } \cup { <<name, value>> }

remove_var(e, name) == { b \in e : b[1] # name }

\* str::starts_with
starts_with(k, prefix) ==
    /\ Len(k) >= Len(prefix)
    /\ SubSeq(k, 1, Len(prefix)) = prefix

\* find_matching_vars that keeps the whole name as the key
find_matching_vars_keeps_prefix(e, prefix) ==
    { <<b[1], b[2]>> : b \in { x \in e : starts_with(x[1], prefix) } }

find_matching_vars(e, prefix) ==
    { <<SubSeq(b[1], Len(prefix) + 1, Len(b[1])), b[2]>> :
        b \in { x \in e : starts_with(x[1], prefix) } }

---------------------------------------------------------------------------
(* Iteration order of a HashSet or HashMap: some order of its elements,    *)
(* fixed by the hasher's seed.  The model takes the rotations of one       *)
(* order of the elements.                                                  *)

RECURSIVE SetToSeq(_)
SetToSeq(S) ==
    IF S = {} THEN <<>>
    ELSE LET x == CHOOSE y \in S : TRUE
         IN  <<x>> \o SetToSeq(S \ {x})

Rotate(s, r) ==
    IF s = <<>> THEN s
    ELSE [ i \in 1..Len(s) |-> s[((i - 1 + r) % Len(s)) + 1] ]

IterOrder(S, seed) == Rotate(SetToSeq(S), seed)

---------------------------------------------------------------------------
(* Formatting.  A literal is a tagged tuple whose tag is the fixed text    *)
(* of the format string that produces it.                                  *)

\* "{:?}" of a string: quoted, with every quote inside it escaped
DebugFmt(x) ==
    << "\"", [ i \in 1..Len(x) |-> IF x[i] = "\"" THEN "\\\"" ELSE x[i] ], "\"" >>

\* "{}" of a u64
DisplayFmt(n) == << ToString(n) >>

---------------------------------------------------------------------------
(* trait Render for the value shapes.  A value is a tagged tuple:          *)
(* <<"Option", o>>, <<"Env", var>>, <<"BuildEnv", o>>,                     *)
(* <<"BuildEnvList", items>>, <<"BuildEnvMap", entries>>; and, for any     *)
(* other implementor of the trait, <<"Render", [render_option, render]>>,  *)
(* the results its two methods return.                                     *)

Option_render_option(self) ==
    IF self # None
    THEN Ok(<<"Some(", DisplayFmt(self[2]), ")">>)
    ELSE Ok(<<"None">>)

Option_render(self) ==
    IF self # None
    THEN Ok(DisplayFmt(self[2]))
    ELSE Err(Missing)

\* "option_env!(\"{}\")" and "env!(\"{}\")"
Env_render_option(self) == Ok(<<"option_env!(\"", self, "\")">>)

Env_render(self) == Ok(<<"env!(\"", self, "\")">>)

\* render_option that fails on an unset variable, as render does
BuildEnv_render_option_fails(self) ==
    IF self # None
    THEN Ok(<<"Some(", DebugFmt(self[2]), ")">>)
    ELSE Err(Missing)

BuildEnv_render_option(self) ==
    IF self # None
    THEN Ok(<<"Some(", DebugFmt(self[2]), ")">>)
    ELSE Ok(<<"None">>)

\* render with "{}" in place of "{:?}"
BuildEnv_render_unquoted(self) ==
    IF self # None
    THEN Ok(self[2])
    ELSE Err(Missing)

BuildEnv_render(self) ==
    IF self # None
    THEN Ok(DebugFmt(self[2]))
    ELSE Err(Missing)

\* one "    {:?},\n" per item between "&[\n" and "]"
BuildEnvList_render(self) ==
    Ok(<<"&[", [ i \in 1..Len(self) |-> DebugFmt(self[i]) ], "]">>)

BuildEnvList_render_option(self) ==
    LET r == BuildEnvList_render(self)
    IN  IF IsOk(r) THEN Ok(<<"Some(", r[2], ")">>) ELSE r

\* phf_codegen::Map: one entry per (key, "{:?}" of the value); the map is
\* built into a Vec<u8>, whose writes do not fail
BuildEnvMap_render(self) ==
    Ok(<<"::phf::Map", { <<DebugFmt(kv[1]), DebugFmt(kv[2])>> : kv \in self }>>)

BuildEnvMap_render_option(self) ==
    LET r == BuildEnvMap_render(self)
    IN  IF IsOk(r) THEN Ok(<<"Some(", r[2], ")">>) ELSE r

value_render_option(value) ==
    CASE value[1] = "Option"       -> Option_render_option(value[2])
      [] value[1] = "Env"          -> Env_render_option(value[2])
      [] value[1] = "BuildEnv"     -> BuildEnv_render_option(value[2])
      [] value[1] = "BuildEnvList" -> BuildEnvList_render_option(value[2])
      [] value[1] = "BuildEnvMap"  -> BuildEnvMap_render_option(value[2])
      [] value[1] = "Render"       -> value[2].render_option

value_render(value) ==
    CASE value[1] = "Option"       -> Option_render(value[2])
      [] value[1] = "Env"          -> Env_render(value[2])
      [] value[1] = "BuildEnv"     -> BuildEnv_render(value[2])
      [] value[1] = "BuildEnvList" -> BuildEnvList_render(value[2])
      [] value[1] = "BuildEnvMap"  -> BuildEnvMap_render(value[2])
      [] value[1] = "Render"       -> value[2].render

---------------------------------------------------------------------------
(* struct Detail<T> and the constructors of the details.                   *)

Detail(name, value_type, value) ==
    [ name |-> name, value_type |-> value_type, value |-> value ]

\* "pub const {}: Option<{}> = {};"
Detail_render_option(self) ==
    LET value == value_render_option(self.value)
    IN  IF ~IsOk(value) THEN value
        ELSE Ok(<< "pub const ", self.name, ": Option<", self.value_type,
                   "> = ", value[2], ";" >>)

\* render that forwards Missing as it is
Detail_render_forwards_missing(self) ==
    LET value == value_render(self.value)
    IN  IF IsOk(value)
        THEN Ok(<< "pub const ", self.name, ": ", self.value_type,
                   " = ", value[2], ";" >>)
        ELSE value

\* render that names the constant whatever the failure of the value was
Detail_render_names_every_error(self) ==
    LET value == value_render(self.value)
    IN  IF IsOk(value)
        THEN Ok(<< "pub const ", self.name, ": ", self.value_type,
                   " = ", value[2], ";" >>)
        ELSE Err(MissingDetail(self.name))

\* "pub const {}: {} = {};"
Detail_render(self) ==
    LET value == value_render(self.value)
    IN  IF IsOk(value)
        THEN Ok(<< "pub const ", self.name, ": ", self.value_type,
                   " = ", value[2], ";" >>)
        ELSE IF value = Err(Missing)
        THEN Err(MissingDetail(self.name))
        ELSE value

\* now: seconds from UNIX_EPOCH to SystemTime::now(), negative when the
\* clock is set before the epoch and duration_since fails
Timestamp_new(now) ==
    LET secs == IF now >= 0 THEN Some(now) ELSE None
    IN  Detail("TIMESTAMP", "u64", <<"Option", secs>>)

Env_new(name, v) == Detail(name, "&'static str", <<"Env", v>>)

BuildEnv_new(e, name, v) ==
    LET x == var(e, v)
    IN  Detail(name, "&'static str", <<"BuildEnv", x>>)

BuildEnvList_new(e, seed, name, prefix) ==
    LET m == find_matching_vars(e, prefix)
        items == IterOrder(m, seed)
    IN  Detail(name, "&'static [&'static str]",
               <<"BuildEnvList", [ i \in 1..Len(items) |-> items[i][1] ]>>)

BuildEnvMap_new(e, name, prefix) ==
    Detail(name, "::phf::Map<&'static str, &'static str>",
           <<"BuildEnvMap", find_matching_vars(e, prefix)>>)

\* into_render that reads the variables of Version and RustFlags when the
\* generator runs, as it does for Profile
into_render_reads_version(self, e, now, seed) ==
    CASE self = "Timestamp"   -> Timestamp_new(now)
      [] self = "Version"     -> BuildEnv_new(e, "VERSION", CARGO_PKG_VERSION)
      [] self = "Name"        -> Env_new("NAME", CARGO_PKG_NAME)
      [] self = "Authors"     -> Env_new("AUTHORS", CARGO_PKG_AUTHORS)
      [] self = "Description" -> Env_new("DESCRIPTION", CARGO_PKG_DESCRIPTION)
      [] self = "Homepage"    -> Env_new("HOMEPAGE", CARGO_PKG_HOMEPAGE)
      [] self = "RustFlags"   -> BuildEnv_new(e, "RUST_FLAGS", RUSTFLAGS)
      [] self = "Profile"     -> BuildEnv_new(e, "PROFILE", PROFILE)
      [] self = "OptLevel"    -> BuildEnv_new(e, "OPT_LEVEL", OPT_LEVEL)
      [] self = "Cfg"         -> BuildEnvMap_new(e, "CFG", CARGO_CFG_)
      [] self = "Features"    ->
            BuildEnvList_new(e, seed, "FEATURES", CARGO_FEATURE_)

\* BuildDetail::into_render, under environment e, clock reading now and
\* hash seed seed
into_render(self, e, now, seed) ==
    CASE self = "Timestamp"   -> Timestamp_new(now)
      [] self = "Version"     -> Env_new("VERSION", CARGO_PKG_VERSION)
      [] self = "Name"        -> Env_new("NAME", CARGO_PKG_NAME)
      [] self = "Authors"     -> Env_new("AUTHORS", CARGO_PKG_AUTHORS)
      [] self = "Description" -> Env_new("DESCRIPTION", CARGO_PKG_DESCRIPTION)
      [] self = "Homepage"    -> Env_new("HOMEPAGE", CARGO_PKG_HOMEPAGE)
      [] self = "RustFlags"   -> Env_new("RUST_FLAGS", RUSTFLAGS)
      [] self = "Profile"     -> BuildEnv_new(e, "PROFILE", PROFILE)
      [] self = "OptLevel"    -> BuildEnv_new(e, "OPT_LEVEL", OPT_LEVEL)
      [] self = "Cfg"         -> BuildEnvMap_new(e, "CFG", CARGO_CFG_)
      [] self = "Features"    ->
            BuildEnvList_new(e, seed, "FEATURES", CARGO_FEATURE_)

BuildDetail_render_option(self, e, now, seed) ==
    Detail_render_option(into_render(self, e, now, seed))

BuildDetail_render(self, e, now, seed) ==
    Detail_render(into_render(self, e, now, seed))

---------------------------------------------------------------------------
(* BuildDetails::write_to and BuildDetails::generate.                      *)

\* the number of lines a sink that never fails accepts
NoLimit == Cardinality(BuildDetail)

\* a writeln! whose failure is dropped (`let _ = writeln!(..)`)
writeln_ignores_failure(out, line) ==
    IF Len(out.lines) < out.cap
    THEN [ out_file |-> [ out EXCEPT !.lines = Append(@, line) ],
           result |-> Ok(<<>>) ]
    ELSE [ out_file |-> out, result |-> Ok(<<>>) ]

\* writeln!(out_file, "{}", line): the sink accepts cap lines, then fails
writeln(out, line) ==
    IF Len(out.lines) < out.cap
    THEN [ out_file |-> [ out EXCEPT !.lines = Append(@, line) ],
           result |-> Ok(<<>>) ]
    ELSE [ out_file |-> out, result |-> Err(Io) ]

\* one `for detail in &self.<set>` loop of write_to over details, the set
\* in its iteration order; st is [out_file, result, rendered]
RECURSIVE write_loop(_, _, _, _, _, _)
write_loop(details, opt, st, e, now, seed) ==
    IF details = <<>> \/ ~IsOk(st.result) THEN st
    ELSE LET detail == Head(details)
             text == IF opt
                     THEN BuildDetail_render_option(detail, e, now, seed)
                     ELSE BuildDetail_render(detail, e, now, seed)
             did == Append(st.rendered, <<detail, opt>>)
         IN  IF ~IsOk(text)
             THEN [ st EXCEPT !.result = text, !.rendered = did ]
             ELSE LET w == writeln(st.out_file, text[2])
                  IN  write_loop(Tail(details), opt,
                                 [ out_file |-> w.out_file,
                                   result |-> w.result,
                                   rendered |-> did ],
                                 e, now, seed)

\* write_to with the two loops in the other order
write_to_required_first(self, out, e, now, seed) ==
    LET st0 == [ out_file |-> out, result |-> Ok(<<>>), rendered |-> <<>> ]
        st1 == write_loop(IterOrder(self.required, seed), FALSE, st0,
                          e, now, seed)
    IN  write_loop(IterOrder(self.optional, seed), TRUE, st1, e, now, seed)

write_to(self, out, e, now, seed) ==
    LET st0 == [ out_file |-> out, result |-> Ok(<<>>), rendered |-> <<>> ]
        st1 == write_loop(IterOrder(self.optional, seed), TRUE, st0,
                          e, now, seed)
    IN  write_loop(IterOrder(self.required, seed), FALSE, st1, e, now, seed)

\* PathBuf::push: an absolute path replaces the base
push(base, path) ==
    IF path # <<>> /\ path[1] = "/" THEN path ELSE base \o <<"/">> \o path

\* File::create: the file exists afterwards and is empty
create(files, path) ==
    { f \in files : f[1] # path } \cup { <<path, <<>>>> }

\* the file system after the lines of file path became lines
store(files, path, lines) ==
    { f \in files : f[1] # path } \cup { <<path, lines>> }

\* generate that creates the file before it looks for OUT_DIR
generate_creates_first(self, path, files, out, e, now, seed, create_ok, cap) ==
    LET out_dir == var(e, OUT_DIR)
        made == IF create_ok THEN create(files, path) ELSE files
    IN  IF out_dir = None
        THEN [ out_file |-> out, result |-> Err(MissingEnv("OUT_DIR")),
               rendered |-> <<>>, fs |-> made, wrote |-> FALSE ]
        ELSE IF ~create_ok
        THEN [ out_file |-> out, result |-> Err(Io),
               rendered |-> <<>>, fs |-> files, wrote |-> FALSE ]
        ELSE LET out_path == push(out_dir[2], path)
                 w == write_to(self, [ lines |-> <<>>, cap |-> cap ],
                               e, now, seed)
             IN  [ out_file |-> w.out_file, result |-> w.result,
                   rendered |-> w.rendered,
                   fs |-> store(create(files, out_path), out_path,
                                w.out_file.lines),
                   wrote |-> TRUE ]

\* generate that keeps the lines of a file an earlier call wrote at the
\* same path, and renders nothing anew
generate_keeps_file(self, path, files, out, e, now, seed, create_ok, cap) ==
    LET out_dir == var(e, OUT_DIR)
    IN  IF out_dir = None
        THEN [ out_file |-> out, result |-> Err(MissingEnv("OUT_DIR")),
               rendered |-> <<>>, fs |-> files, wrote |-> FALSE ]
        ELSE LET out_path == push(out_dir[2], path)
                 kept == { f \in files : f[1] = out_path /\ f[2] # <<>> }
             IN  IF ~create_ok
                 THEN [ out_file |-> out, result |-> Err(Io),
                        rendered |-> <<>>, fs |-> files, wrote |-> FALSE ]
                 ELSE IF kept # {}
                 THEN [ out_file |-> [ lines |-> (CHOOSE f \in kept : TRUE)[2],
                                       cap |-> cap ],
                        result |-> Ok(<<>>), rendered |-> <<>>,
                        fs |-> files, wrote |-> TRUE ]
                 ELSE LET w == write_to(self, [ lines |-> <<>>, cap |-> cap ],
                                        e, now, seed)
                      IN  [ out_file |-> w.out_file, result |-> w.result,
                            rendered |-> w.rendered,
                            fs |-> store(create(files, out_path), out_path,
                                         w.out_file.lines),
                            wrote |-> TRUE ]

\* generate under environment e; create_ok: whether File::create succeeds,
\* cap: the lines the file accepts.  The outcome is the file system, the
\* sink and renders of the call, its result, and whether it got to write_to
generate(self, path, files, out, e, now, seed, create_ok, cap) ==
    LET out_dir == var(e, OUT_DIR)
    IN  IF out_dir = None
        THEN [ out_file |-> out, result |-> Err(MissingEnv("OUT_DIR")),
               rendered |-> <<>>, fs |-> files, wrote |-> FALSE ]
        ELSE LET out_path == push(out_dir[2], path)
             IN  IF ~create_ok
                 THEN [ out_file |-> out, result |-> Err(Io),
                        rendered |-> <<>>, fs |-> files, wrote |-> FALSE ]
                 ELSE LET w == write_to(self, [ lines |-> <<>>, cap |-> cap ],
                                        e, now, seed)
                      IN  [ out_file |-> w.out_file, result |-> w.result,
                            rendered |-> w.rendered,
                            fs |-> store(create(files, out_path), out_path,
                                         w.out_file.lines),
                            wrote |-> TRUE ]

---------------------------------------------------------------------------
(* Inputs of the operations.                                               *)

Seeds == 0..MaxSeed

\* a sink that fails after MaxSinkCap lines, and one that never fails
SinkCaps == { MaxSinkCap, NoLimit }

\* clock readings: before the epoch, and after it
Clock == {-1, 1}

\* the relative paths given to generate
Paths == { <<"build_details.rs">>, <<"required_build_details.rs">> }

\* what generate meets besides its path: whether File::create succeeds and,
\* when it does, the lines the file accepts, the clock and the hash seed
GenerateInputs ==
    { [ create_ok |-> FALSE, cap |-> NoLimit, now |-> 1, seed |-> 0 ] }
    \cup { [ create_ok |-> TRUE, cap |-> c, now |-> n, seed |-> s ] :
              c \in SinkCaps, n \in Clock, s \in Seeds }

\* call: which of write_to and generate the most recent operation was
\* ("-" when it was neither), the clock reading it took and whether it ran
\* write_to
NoCall == [ op |-> "-", now |-> 0, wrote |-> FALSE ]

---------------------------------------------------------------------------
(* The state machine.                                                      *)

Init ==
    /\ ctor \in Constructors
    /\ bd = Construct(ctor)
    /\ last = [ k \in BuildDetail |-> "new" ]
    /\ call = NoCall
    /\ env \in InitEnvs
    /\ out_file = [ lines |-> <<>>, cap |-> NoLimit ]
    /\ result = Ok(<<>>)
    /\ rendered = <<>>
    /\ descriptor = None
    /\ fs = {}
    /\ steps = 0

Step ==
    /\ steps < MaxSteps
    /\ steps' = steps + 1

Require(detail) ==
    /\ Step
    /\ bd' = require(bd, detail)
    /\ last' = [ last EXCEPT ![detail] = "require" ]
    /\ call' = NoCall
    /\ UNCHANGED <<ctor, env, out_file, result, rendered, descriptor, fs>>

Include(detail) ==
    /\ Step
    /\ bd' = include(bd, detail)
    /\ last' = [ last EXCEPT ![detail] = "include" ]
    /\ call' = NoCall
    /\ UNCHANGED <<ctor, env, out_file, result, rendered, descriptor, fs>>

Exclude(detail) ==
    /\ Step
    /\ bd' = exclude(bd, detail)
    /\ last' = [ last EXCEPT ![detail] = "exclude" ]
    /\ call' = NoCall
    /\ UNCHANGED <<ctor, env, out_file, result, rendered, descriptor, fs>>

SetVar(name, value) ==
    /\ Step
    /\ env' = set_var(env, name, value)
    /\ call' = NoCall
    /\ UNCHANGED <<bd, ctor, last, out_file, result, rendered, descriptor, fs>>

RemoveVar(name) ==
    /\ Step
    /\ env' = remove_var(env, name)
    /\ call' = NoCall
    /\ UNCHANGED <<bd, ctor, last, out_file, result, rendered, descriptor, fs>>

\* the clock reading Timestamp::new took during a write that rendered the
\* Timestamp kind; 0 when the write never read the clock
clock_read(did, now) ==
    IF \E i \in 1..Len(did) : did[i][1] = "Timestamp" THEN now ELSE 0

WriteTo(cap, now, seed) ==
    /\ Step
    /\ LET w == write_to(bd, [ lines |-> <<>>, cap |-> cap ], env, now, seed)
       IN  /\ out_file' = w.out_file
           /\ result' = w.result
           /\ rendered' = w.rendered
           /\ call' = [ NoCall EXCEPT !.op = "write_to", !.wrote = TRUE,
                                      !.now = clock_read(w.rendered, now) ]
    /\ UNCHANGED <<bd, ctor, last, env, descriptor, fs>>

Generate(path, in) ==
    /\ Step
    /\ LET g == generate(bd, path, fs, out_file, env, in.now, in.seed,
                         in.create_ok, in.cap)
       IN  /\ out_file' = g.out_file
           /\ result' = g.result
           /\ rendered' = g.rendered
           /\ fs' = g.fs
           /\ call' = [ NoCall EXCEPT !.op = "generate", !.wrote = g.wrote,
                                      !.now = clock_read(g.rendered, in.now) ]
    /\ UNCHANGED <<bd, ctor, last, env, descriptor>>

Next ==
    \/ \E detail \in BuildDetail : Require(detail)
    \/ \E detail \in BuildDetail : Include(detail)
    \/ \E detail \in BuildDetail : Exclude(detail)
    \/ \E name \in VarNames : \E value \in Values(name) : SetVar(name, value)
    \/ \E name \in VarNames : RemoveVar(name)
    \/ \E cap \in SinkCaps, now \in Clock, seed \in Seeds :
          WriteTo(cap, now, seed)
    \/ \E path \in Paths, in \in GenerateInputs : Generate(path, in)

Spec == Init /\ [][Next]_vars

---------------------------------------------------------------------------
(* The rendering layer by itself: Detail<T> is generic in T: Render, so a  *)
(* descriptor is rendered over any implementor of the trait as well as     *)
(* over the values into_render builds.                                     *)

\* the errors of error::Error a Result<String> may carry
Errors == { Fmt, Io, Missing, MissingDetail("OTHER"), MissingEnv("OUT_DIR") }

\* what a method of an implementor of Render may return
RenderResults == { Ok(<<"1">>) } \cup { Err(e) : e \in Errors }

\* the implementors: render returns any of the results, render_option
\* succeeds or fails as render does
Implementors ==
    { <<"Render", [ render_option |-> a, render |-> b ]>> :
         a \in { Ok(<<"1">>), Err(Missing) }, b \in RenderResults }

\* the descriptors a render may meet under environment e
Descriptors(e) ==
    { Detail("VALUE", "&'static str", value) : value \in Implementors }
    \cup { into_render(k, e, now, seed) :
              k \in BuildDetail, now \in Clock, seed \in Seeds }

\* Detail::render_option (opt) or Detail::render of descriptor d
DetailRender(d, opt) ==
    /\ Step
    /\ descriptor' = d
    /\ result' = IF opt THEN Detail_render_option(d) ELSE Detail_render(d)
    /\ call' = [ NoCall EXCEPT !.op = IF opt THEN "render_option"
                                            ELSE "render" ]
    /\ UNCHANGED <<bd, ctor, last, env, out_file, rendered, fs>>

NextRender ==
    \/ \E d \in Descriptors(env), opt \in BOOLEAN : DetailRender(d, opt)
    \/ \E cap \in SinkCaps, now \in Clock, seed \in Seeds :
          WriteTo(cap, now, seed)
    \/ \E path \in Paths, in \in GenerateInputs : Generate(path, in)

SpecRender == Init /\ [][NextRender]_vars

---------------------------------------------------------------------------
(* A BuildDetails written more than once: write_to and generate take       *)
(* &self.  The behaviours start when a first generate has returned, and go *)
(* on with changes of the environment and further calls.                   *)

\* a call whose file is created and accepts every line
RerunInputs == { in \in GenerateInputs : in.create_ok /\ in.cap = NoLimit }

\* the variables changed between the calls: one read when the generator
\* runs, one named in the generated code, one of each prefix
RerunNames ==
    { PROFILE, CARGO_PKG_VERSION, CARGO_CFG_ \o <<"UNIX">>,
      CARGO_FEATURE_ \o <<"ON_", "BY_", "DEFAULT">> }

\* the first call: the constructor, the environment and what generate
\* returned and left
FirstCalls ==
    { [ ctor |-> c, env |-> e, now |-> in.now,
        g |-> generate(Construct(c), path, {},
                       [ lines |-> <<>>, cap |-> NoLimit ], e, in.now,
                       in.seed, in.create_ok, in.cap) ] :
         c \in Constructors, e \in InitEnvs, path \in Paths,
         in \in RerunInputs }

InitRerun ==
    /\ \E first \in FirstCalls :
          /\ ctor = first.ctor
          /\ bd = Construct(first.ctor)
          /\ env = first.env
          /\ out_file = first.g.out_file
          /\ result = first.g.result
          /\ rendered = first.g.rendered
          /\ fs = first.g.fs
          /\ call = [ NoCall EXCEPT
                        !.op = "generate", !.wrote = first.g.wrote,
                        !.now = clock_read(first.g.rendered, first.now) ]
    /\ last = [ k \in BuildDetail |-> "new" ]
    /\ descriptor = None
    /\ steps = 0

NextRerun ==
    \/ \E name \in RerunNames : \E value \in Values(name) :
          SetVar(name, value)
    \/ \E name \in RerunNames : RemoveVar(name)
    \/ \E now \in Clock, seed \in Seeds : WriteTo(NoLimit, now, seed)
    \/ \E path \in Paths, in \in RerunInputs : Generate(path, in)

SpecRerun == InitRerun /\ [][NextRerun]_vars

---------------------------------------------------------------------------
(* What the claims speak of.                                               *)

\* the catalog of kinds the specification lists
CatalogKinds ==
    { "Timestamp", "Version", "Profile", "RustFlags", "Name", "Authors",
      "Description", "Homepage", "OptLevel", "Cfg", "Features" }

\* the constant each kind declares
DeclaredName(k) ==
    CASE k = "Timestamp"   -> "TIMESTAMP"
      [] k = "Version"     -> "VERSION"
      [] k = "Profile"     -> "PROFILE"
      [] k = "RustFlags"   -> "RUST_FLAGS"
      [] k = "Name"        -> "NAME"
      [] k = "Authors"     -> "AUTHORS"
      [] k = "Description" -> "DESCRIPTION"
      [] k = "Homepage"    -> "HOMEPAGE"
      [] k = "OptLevel"    -> "OPT_LEVEL"
      [] k = "Cfg"         -> "CFG"
      [] k = "Features"    -> "FEATURES"

\* kinds read from one variable when the generator runs
SnapshotKinds == { "Profile", "OptLevel" }

\* kinds read from one variable when the generated file is compiled
DeferredKinds ==
    { "Version", "Name", "Authors", "Description", "Homepage", "RustFlags" }

\* the variable behind a single-variable kind
BackingVar(k) ==
    CASE k = "Version"     -> <<"CARGO_", "PKG_", "VERSION">>
      [] k = "Name"        -> <<"CARGO_", "PKG_", "NAME">>
      [] k = "Authors"     -> <<"CARGO_", "PKG_", "AUTHORS">>
      [] k = "Description" -> <<"CARGO_", "PKG_", "DESCRIPTION">>
      [] k = "Homepage"    -> <<"CARGO_", "PKG_", "HOMEPAGE">>
      [] k = "RustFlags"   -> <<"RUSTFLAGS">>
      [] k = "Profile"     -> <<"PROFILE">>
      [] k = "OptLevel"    -> <<"OPT_LEVEL">>

IsSet(name) == \E b \in env : b[1] = name

ValueOf(name) == (CHOOSE b \in env : b[1] = name)[2]

\* the most recent operation ran write_to, so that env and bd are those it saw
WriteRan == call.wrote

\* its sink accepted every write
Accepting == out_file.cap = NoLimit

Lines == out_file.lines

IsOptionalLine(l) == l[3] = ": Option<"

IsRequiredLine(l) == l[3] = ": "

\* the render at position i of the call was of kind k, in the optional form
\* (opt) or in the required form
Rendered(i, k, opt) == rendered[i] = <<k, opt>>

\* render i wrote its line, or was the write the sink refused
RenderSucceeded(i) ==
    \/ i <= Len(Lines)
    \/ i = Len(Lines) + 1 /\ result = Err(<<"Io">>)

\* the data behind kind k was absent when the call ran: an unset variable,
\* or a clock before the epoch
Absent(k) ==
    CASE k = "Timestamp" -> call.now < 0
      [] k \in SnapshotKinds \cup DeferredKinds -> ~IsSet(BackingVar(k))
      [] OTHER -> FALSE

\* the same, for the kinds whose data the generator itself reads
AbsentAtGeneration(k) == k \notin DeferredKinds /\ Absent(k)

---------------------------------------------------------------------------
\* C1: in every reachable state the required and the optional set are
\* disjoint.
C1_Disjoint == bd.optional \cap bd.required = {}

\* a kind the constructor made optional was then required
C1_Witness ==
    /\ ctor = "all"
    /\ last["Version"] = "require"
    /\ "Version" \in bd.required

\* C2: the membership of a kind is fixed by the last call made with it:
\* require puts it in required only, include in optional only, exclude in
\* neither; a kind no call was made with is where the constructor put it.
C2_LastCallDecides ==
    \A k \in CatalogKinds :
        /\ last[k] = "require" => k \in bd.required /\ k \notin bd.optional
        /\ last[k] = "include" => k \in bd.optional /\ k \notin bd.required
        /\ last[k] = "exclude" => k \notin bd.optional /\ k \notin bd.required
        /\ last[k] = "new" =>
              /\ k \in bd.optional <=> k \in Construct(ctor).optional
              /\ k \in bd.required <=> k \in Construct(ctor).required

\* require_all(), then exclude(k) and include(k): k is optional only, and
\* the kinds no call was made with are still required
C2_Witness ==
    /\ ctor = "require_all"
    /\ steps = 2
    /\ last["RustFlags"] = "include"
    /\ bd.optional = {"RustFlags"}
    /\ \A k \in CatalogKinds \ {"RustFlags"} : last[k] = "new"

\* C5: all() holds every kind of the catalog in its optional set and none
\* in its required set; require_all() holds every kind in its required set
\* and none in its optional set.
C5_ConstructorsHoldCatalog ==
    steps = 0 =>
        /\ ctor = "all" =>
              bd.optional = CatalogKinds /\ bd.required = {}
        /\ ctor = "require_all" =>
              bd.required = CatalogKinds /\ bd.optional = {}

\* C3 as stated: a write_to whose sink accepts every write fails exactly
\* when the data behind some required kind is absent, the single-variable
\* kinds Version, Name, Authors, Description, Homepage and RustFlags
\* included, and the error is MissingDetail with the constant name of such
\* a kind.
C3_AsStated ==
    (WriteRan /\ Accepting) =>
        LET missing == { k \in bd.required : Absent(k) }
        IN  IF missing = {} THEN IsOk(result)
            ELSE \E k \in missing : result = Err(<<"MissingDetail", DeclaredName(k)>>)

\* C3, amended: the same for the kinds whose data the generator itself
\* reads (Profile, OptLevel, Timestamp); a required Version, Name, Authors,
\* Description, Homepage or RustFlags never makes write_to fail, set or not.
C3_MissingDetail ==
    (WriteRan /\ Accepting) =>
        LET missing == { k \in bd.required : AbsentAtGeneration(k) }
        IN  IF missing = {} THEN IsOk(result)
            ELSE \E k \in missing : result = Err(<<"MissingDetail", DeclaredName(k)>>)

\* Profile and OptLevel are both required and both unset: the write fails
\* and names one of them
C3_Witness ==
    /\ WriteRan /\ Accepting
    /\ {"Profile", "OptLevel", "Version"} \subseteq bd.required
    /\ ~IsSet(<<"PROFILE">>) /\ ~IsSet(<<"OPT_LEVEL">>)
    /\ ~IsSet(<<"CARGO_", "PKG_", "VERSION">>)
    /\ result \in { Err(<<"MissingDetail", "PROFILE">>),
                    Err(<<"MissingDetail", "OPT_LEVEL">>) }

\* C4 as stated: with no required kind and a sink that accepts every write,
\* write_to succeeds, and every optional kind whose backing value is absent
\* is emitted with the None literal.
C4_AsStated ==
    (WriteRan /\ Accepting /\ bd.required = {}) =>
        /\ IsOk(result)
        /\ Len(Lines) = Len(rendered)
        /\ \A i \in 1..Len(Lines) :
              Absent(rendered[i][1]) => Lines[i][6] = <<"None">>

\* C4, amended: the same, the None literal being emitted for the kinds the
\* generator itself reads (Profile, OptLevel, Timestamp); Version, Name,
\* Authors, Description, Homepage and RustFlags are emitted as
\* option_env!("VAR"), set or not.
C4_OptionalNeverFails ==
    (WriteRan /\ Accepting /\ bd.required = {}) =>
        /\ IsOk(result)
        /\ Len(Lines) = Len(rendered)
        /\ { rendered[i][1] : i \in 1..Len(rendered) } = bd.optional
        /\ \A i \in 1..Len(Lines) :
              /\ AbsentAtGeneration(rendered[i][1]) => Lines[i][6] = <<"None">>
              /\ rendered[i][1] \in DeferredKinds =>
                    Lines[i][6] = <<"option_env!(\"", BackingVar(rendered[i][1]), "\")">>

\* an optional Profile with PROFILE unset was written as None
C4_Witness ==
    /\ WriteRan /\ Accepting /\ bd.required = {}
    /\ "Profile" \in bd.optional /\ ~IsSet(<<"PROFILE">>)
    /\ IsOk(result)
    /\ \E i \in 1..Len(Lines) :
          Lines[i][2] = "PROFILE" /\ Lines[i][6] = <<"None">>

\* C6: write_to writes every line of an optional kind before any line of a
\* required kind, renders the required kinds one at a time, and returns the
\* error of the first required render that fails; no line is written after
\* it, and the lines written before it (every optional line, and the
\* required lines rendered before the failure) stay in the sink.
C6_TwoPhases ==
    WriteRan =>
        /\ \A i, j \in 1..Len(Lines) :
              i < j => ~(IsRequiredLine(Lines[i]) /\ IsOptionalLine(Lines[j]))
        /\ \A i, j \in 1..Len(rendered) :
              i # j => rendered[i][1] # rendered[j][1]
        /\ Len(Lines) <= Len(rendered)
        /\ \A i \in 1..Len(Lines) :
              /\ Lines[i][2] = DeclaredName(rendered[i][1])
              /\ IsOptionalLine(Lines[i]) <=> rendered[i][2]
              /\ IsRequiredLine(Lines[i]) <=> ~rendered[i][2]
              /\ rendered[i][1] \in
                    (IF rendered[i][2] THEN bd.optional ELSE bd.required)
        /\ \A k \in CatalogKinds :
              result = Err(<<"MissingDetail", DeclaredName(k)>>) =>
                  LET f == Len(rendered)
                  IN  /\ f = Len(Lines) + 1
                      /\ rendered[f] = <<k, FALSE>>
                      /\ AbsentAtGeneration(k)
                      /\ { rendered[i][1] : i \in { j \in 1..Len(Lines) :
                               rendered[j][2] } } = bd.optional
                      /\ \A i \in 1..Len(Lines) :
                            ~rendered[i][2] =>
                                ~AbsentAtGeneration(rendered[i][1])

\* a required render failed after an optional and a required line were
\* written
C6_Witness ==
    /\ WriteRan
    /\ \E k \in CatalogKinds : result = Err(<<"MissingDetail", DeclaredName(k)>>)
    /\ \E i, j \in 1..Len(Lines) :
          IsOptionalLine(Lines[i]) /\ IsRequiredLine(Lines[j])

\* C7: with OUT_DIR unset, generate returns MissingEnv("OUT_DIR") for any
\* sets and any relative path, and creates or truncates no file and renders
\* and writes no detail.
C7_MissingOutDir ==
    [][ (call'.op = "generate" /\ steps' # steps /\ ~IsSet(<<"OUT_DIR">>)) =>
            /\ result' = Err(<<"MissingEnv", "OUT_DIR">>)
            /\ fs' = fs
            /\ rendered' = <<>>
            /\ out_file' = out_file ]_vars

\* generate was called on a BuildDetails that holds kinds, with OUT_DIR
\* unset
C7_Witness ==
    /\ call.op = "generate"
    /\ ~IsSet(<<"OUT_DIR">>)
    /\ bd.optional # {} /\ bd.required # {}
    /\ result = Err(<<"MissingEnv", "OUT_DIR">>)

\* C8: whenever write_to renders Profile or OptLevel, what comes of it is
\* fixed by PROFILE or OPT_LEVEL as set at the call.  In the required form
\* it fails with MissingDetail of the constant name if and only if the
\* variable is unset, and otherwise gives one required-form line whose value
\* is the variable's value in quotes; in the optional form it gives
\* Some(quoted value) when the variable is set and None when it is not.
C8_Snapshot ==
    WriteRan =>
        \A k \in SnapshotKinds :
            LET v == BackingVar(k)
                name == DeclaredName(k)
                quoted == <<"\"", ValueOf(v), "\"">>
            IN  /\ result = Err(<<"MissingDetail", name>>) =>
                      k \in bd.required /\ ~IsSet(v)
                /\ (k \in bd.required /\ bd.required = {k} /\ Accepting) =>
                      (~IsOk(result) <=> ~IsSet(v))
                /\ \A i \in 1..Len(rendered) :
                      /\ Rendered(i, k, FALSE) /\ ~IsSet(v) =>
                            /\ i = Len(rendered)
                            /\ Len(Lines) = i - 1
                            /\ result = Err(<<"MissingDetail", name>>)
                      /\ Rendered(i, k, FALSE) /\ IsSet(v) =>
                            /\ RenderSucceeded(i)
                            /\ i <= Len(Lines) =>
                                  Lines[i] = << "pub const ", name, ": ",
                                                "&'static str", " = ", quoted,
                                                ";" >>
                      /\ Rendered(i, k, TRUE) =>
                            /\ RenderSucceeded(i)
                            /\ i <= Len(Lines) =>
                                  Lines[i] = << "pub const ", name,
                                                ": Option<", "&'static str",
                                                "> = ",
                                                IF IsSet(v)
                                                THEN <<"Some(", quoted, ")">>
                                                ELSE <<"None">>,
                                                ";" >>

\* PROFILE is release and a required Profile was written
C8_Witness ==
    /\ WriteRan
    /\ "Profile" \in bd.required
    /\ IsSet(<<"PROFILE">>) /\ ValueOf(<<"PROFILE">>) = <<"release">>
    /\ \E i \in 1..Len(Lines) :
          Lines[i] = << "pub const ", "PROFILE", ": ", "&'static str", " = ",
                        <<"\"", <<"release">>, "\"">>, ";" >>

\* C9: whenever write_to renders Version, Name, Authors, Description,
\* Homepage or RustFlags, the render succeeds and gives one line that names
\* the variable, env!("VAR") in the required form and option_env!("VAR") in
\* the optional form, the same text whether the variable is set or not; a
\* write_to of such kinds alone, to a sink that accepts every write,
\* succeeds with one line for each.
C9_Deferred ==
    WriteRan =>
        /\ \A k \in DeferredKinds :
              /\ result # Err(<<"MissingDetail", DeclaredName(k)>>)
              /\ \A i \in 1..Len(rendered) :
                    /\ (Rendered(i, k, FALSE) \/ Rendered(i, k, TRUE)) =>
                          RenderSucceeded(i)
                    /\ (Rendered(i, k, FALSE) /\ i <= Len(Lines)) =>
                          Lines[i] = << "pub const ", DeclaredName(k), ": ",
                                        "&'static str", " = ",
                                        <<"env!(\"", BackingVar(k), "\")">>,
                                        ";" >>
                    /\ (Rendered(i, k, TRUE) /\ i <= Len(Lines)) =>
                          Lines[i] = << "pub const ", DeclaredName(k),
                                        ": Option<", "&'static str", "> = ",
                                        <<"option_env!(\"", BackingVar(k), "\")">>,
                                        ";" >>
        /\ (Accepting /\ bd.optional \cup bd.required \subseteq DeferredKinds) =>
              /\ IsOk(result)
              /\ Len(Lines) = Cardinality(bd.optional) + Cardinality(bd.required)

\* a required Version was written with CARGO_PKG_VERSION unset
C9_Witness ==
    /\ WriteRan /\ IsOk(result)
    /\ "Version" \in bd.required
    /\ ~IsSet(<<"CARGO_", "PKG_", "VERSION">>)
    /\ \E i \in 1..Len(Lines) :
          Lines[i] = << "pub const ", "VERSION", ": ", "&'static str", " = ",
                        <<"env!(\"", <<"CARGO_", "PKG_", "VERSION">>, "\")">>,
                        ";" >>

\* the CARGO_CFG_* and CARGO_FEATURE_* variables of the model, each with
\* its name less the prefix
CfgVars ==
    { << <<"CARGO_", "CFG_", "UNIX">>, <<"UNIX">> >>,
      << <<"CARGO_", "CFG_", "TARGET_", "POINTER_", "WIDTH">>,
         <<"TARGET_", "POINTER_", "WIDTH">> >> }

FeatureVars ==
    { << <<"CARGO_", "FEATURE_", "ON_", "BY_", "DEFAULT">>,
         <<"ON_", "BY_", "DEFAULT">> >> }

\* the entries of the map of Cfg and the items of the list of Features that
\* the environment calls for
ExpectedCfg ==
    { << <<"\"", p[2], "\"">>, <<"\"", ValueOf(p[1]), "\"">> >> :
        p \in { q \in CfgVars : IsSet(q[1]) } }

ExpectedFeatures ==
    { <<"\"", p[2], "\"">> : p \in { q \in FeatureVars : IsSet(q[1]) } }

\* the collection in the value of a line: the value itself in the required
\* form, what Some( ) wraps in the optional form
Collection(l) == IF IsOptionalLine(l) THEN l[6][2] ELSE l[6]

\* C10: a render of Cfg or Features, required or optional, never fails.  The
\* map of Cfg has one entry for each set CARGO_CFG_* variable, keyed by the
\* name less the prefix and mapped to its value; the list of Features has
\* one item for each set CARGO_FEATURE_* variable, the name less the prefix.
\* With no such variable it is the empty map or list, Some(...) of it in
\* the optional form, never None.
C10_Collections ==
    WriteRan =>
        /\ result \notin { Err(<<"MissingDetail", "CFG">>),
                           Err(<<"MissingDetail", "FEATURES">>),
                           Err(<<"Missing">>), Err(<<"Fmt">>) }
        /\ \A i \in 1..Len(rendered) :
              rendered[i][1] \in {"Cfg", "Features"} => RenderSucceeded(i)
        /\ \A i \in 1..Len(Lines) :
              /\ rendered[i][1] \in {"Cfg", "Features"} =>
                    (rendered[i][2] =>
                        /\ Len(Lines[i][6]) = 3
                        /\ Lines[i][6][1] = "Some("
                        /\ Lines[i][6][3] = ")")
              /\ rendered[i][1] = "Cfg" =>
                    Collection(Lines[i]) = <<"::phf::Map", ExpectedCfg>>
              /\ rendered[i][1] = "Features" =>
                    LET c == Collection(Lines[i])
                    IN  /\ Len(c) = 3 /\ c[1] = "&[" /\ c[3] = "]"
                        /\ Len(c[2]) = Cardinality(ExpectedFeatures)
                        /\ { c[2][j] : j \in 1..Len(c[2]) } = ExpectedFeatures

\* Cfg and Features were written in the optional form with no CARGO_CFG_*
\* and no CARGO_FEATURE_* variable set
C10_Witness ==
    /\ WriteRan /\ IsOk(result)
    /\ ExpectedCfg = {} /\ ExpectedFeatures = {}
    /\ \E i, j \in 1..Len(Lines) :
          /\ Lines[i][2] = "CFG"
          /\ Lines[i][6] = <<"Some(", <<"::phf::Map", {}>>, ")">>
          /\ Lines[j][2] = "FEATURES"
          /\ Lines[j][6] = <<"Some(", <<"&[", <<>>, "]">>, ")">>

---------------------------------------------------------------------------
\* C11: the bare Missing error never leaves a required render: write_to,
\* generate and Detail::render never return Missing; when the value's render
\* fails with Missing the descriptor's render fails with MissingDetail of
\* the descriptor's name; when it fails with any other error the
\* descriptor's render returns that error as it is; and a MissingDetail
\* that write_to returns names the required kind rendered last.
C11_MissingNeverEscapes ==
    /\ call.op \in { "write_to", "generate", "render" }
          => result # Err(Missing)
    /\ call.op = "render" =>
          LET value == value_render(descriptor.value)
          IN  /\ value = Err(Missing)
                    => result = Err(MissingDetail(descriptor.name))
              /\ ~IsOk(value) /\ value # Err(Missing) => result = value
    /\ WriteRan /\ ~IsOk(result) /\ result[2][1] = "MissingDetail" =>
          /\ rendered # <<>>
          /\ \E k \in BuildDetail :
                /\ Rendered(Len(rendered), k, FALSE)
                /\ result[2][2] = DeclaredName(k)
                /\ AbsentAtGeneration(k)

\* a descriptor over a value whose render fails with Missing was rendered
\* in the required form, and the failure names the descriptor
C11_Witness ==
    /\ call.op = "render"
    /\ descriptor.value[1] = "Render"
    /\ descriptor.value[2].render = Err(Missing)
    /\ result = Err(MissingDetail(descriptor.name))

---------------------------------------------------------------------------
\* the lines of the call that declare the constant of kind k in the
\* optional form (opt) or in the required form
LinesOf(k, opt) ==
    { i \in 1..Len(Lines) :
         /\ Lines[i][2] = DeclaredName(k)
         /\ IF opt THEN IsOptionalLine(Lines[i]) ELSE IsRequiredLine(Lines[i]) }

\* C12: when write_to returns success, the sink holds exactly one line for
\* every kind of the optional set and one for every kind of the required
\* set and nothing else, |optional| + |required| lines in all, no render
\* failed and the sink refused no write; so a call in which a render or a
\* write fails returns an error.
C12_SuccessIsComplete ==
    WriteRan /\ IsOk(result) =>
        /\ Len(Lines) = Cardinality(bd.optional) + Cardinality(bd.required)
        /\ Len(Lines) <= out_file.cap
        /\ Len(rendered) = Len(Lines)
        /\ \A k \in bd.optional :
              Cardinality(LinesOf(k, TRUE)) = 1 /\ LinesOf(k, FALSE) = {}
        /\ \A k \in bd.required :
              Cardinality(LinesOf(k, FALSE)) = 1 /\ LinesOf(k, TRUE) = {}
        /\ \A k \in BuildDetail \ (bd.optional \cup bd.required) :
              LinesOf(k, TRUE) \cup LinesOf(k, FALSE) = {}
        /\ \A k \in bd.required : ~AbsentAtGeneration(k)

\* a write over a set with optional and required kinds returned success
C12_Witness ==
    /\ WriteRan
    /\ IsOk(result)
    /\ bd.optional # {}
    /\ bd.required # {}
    /\ Len(Lines) = Cardinality(bd.optional) + Cardinality(bd.required)

---------------------------------------------------------------------------
\* the value of line l, of kind k, is the one that the environment and the
\* clock of the call give: the variable's value for Profile and OptLevel,
\* the set variables of the prefix for Cfg and Features, the clock reading
\* for Timestamp, and the variable's name alone for the deferred kinds
AgreesWithCall(k, l) ==
    CASE k \in SnapshotKinds ->
            LET v == BackingVar(k)
                quoted == <<"\"", ValueOf(v), "\"">>
            IN  IF IsRequiredLine(l)
                THEN IsSet(v) /\ l[6] = quoted
                ELSE l[6] = IF IsSet(v) THEN <<"Some(", quoted, ")">>
                                        ELSE <<"None">>
      [] k = "Cfg" -> Collection(l)[2] = ExpectedCfg
      [] k = "Features" ->
            LET items == Collection(l)[2]
            IN  { items[j] : j \in 1..Len(items) } = ExpectedFeatures
      [] k = "Timestamp" ->
            IF IsRequiredLine(l)
            THEN call.now >= 0 /\ l[6] = <<ToString(call.now)>>
            ELSE l[6] = IF call.now >= 0
                        THEN <<"Some(", <<ToString(call.now)>>, ")">>
                        ELSE <<"None">>
      [] k \in DeferredKinds -> l[6][2] = BackingVar(k)

\* C13: every line a write_to wrote carries the value that the environment
\* (and the clock) had during that call, whatever the environment was when
\* the BuildDetails was made or changed and whatever earlier calls on it
\* wrote; the file of a generate holds the lines of that call.
C13_ReadAtRender ==
    WriteRan =>
        /\ \A i \in 1..Len(Lines) : \A k \in BuildDetail :
              Lines[i][2] = DeclaredName(k) => AgreesWithCall(k, Lines[i])
        /\ call.op = "generate" => \E f \in fs : f[2] = Lines

\* a generate wrote a Profile line that differs from the Profile line in a
\* file an earlier generate on the same BuildDetails wrote
C13_Witness ==
    /\ call.op = "generate"
    /\ WriteRan
    /\ IsOk(result)
    /\ \E f \in fs :
          \E i \in 1..Len(f[2]), j \in 1..Len(Lines) :
              /\ f[2][i][2] = "PROFILE"
              /\ Lines[j][2] = "PROFILE"
              /\ f[2][i][6] # Lines[j][6]
              /\ AgreesWithCall("Profile", Lines[j])

=============================================================================
